---- MODULE Spec2Model ----
(***************************************************************************)
(* A state-machine model of src/app.js: the persisted visit state          *)
(* (localStorage), the section / text / status filters, the marker list,  *)
(* the route origin and the greedy route builder.                          *)
(*                                                                         *)
(* Numbers.  Coordinates are integers in units of 0.001 degree.  Distances *)
(* are integer metres.  Ratings and the numbers typed in the popup are in  *)
(* tenths (75 is 7.5), so that Math.round has something to do.             *)
(* Text is a sequence of one-character strings.                            *)
(***************************************************************************)
EXTENDS Integers, Sequences, FiniteSets, TLC

VARIABLES
  allFallas,      \* the in-memory catalog (line 15), a sequence of raw records
  storage,        \* the text stored under STORAGE_KEY in localStorage
  secCbs,         \* the .sec-cb checkboxes: section label -> checked
  allCb,          \* the #sec_all checkbox
  textFilter,     \* the value of #textFilter
  statusFilter,   \* the value of #statusFilter
  rendered,       \* the argument of the last renderMarkers call (catalog indices)
  markers,        \* the markers array (line 16)
  routeLine,      \* the displayed polyline (line 467) or NoValue
  startMarker,    \* the manual start marker (line 164) or NoValue
  userMarker,     \* the geolocation marker (line 111) or NoValue
  pickStartMode,  \* line 165
  watchId,        \* line 112
  phase,          \* "boot" before main, "running" once main has bound the
                  \* handlers, "failed" when main threw
  fault,          \* the place of the last uncaught exception, or "none"
  rb              \* the activation of buildRoute / buildOptimizedRoute

vars == <<allFallas, storage, secCbs, allCb, textFilter, statusFilter, rendered,
          markers, routeLine, startMarker, userMarker, pickStartMode, watchId,
          phase, fault, rb>>

appVars == <<allFallas, storage, secCbs, allCb, textFilter, statusFilter, rendered,
             markers, routeLine, startMarker, userMarker, pickStartMode, watchId,
             phase, fault>>

NoValue == [none |-> TRUE]

(***************************************************************************)
(* Bounds of the model.                                                    *)
(***************************************************************************)
MaxPoints == 3        \* longest candidate list handed to buildOptimizedRoute
                      \* in the specification of the pure route builder
MaxLat == 3           \* largest latitude (0.001 degree) of that specification

(***************************************************************************)
(* Arithmetic helpers.                                                     *)
(***************************************************************************)
Max(a, b) == IF a > b THEN a ELSE b
Min(a, b) == IF a < b THEN a ELSE b

\* the elements of s at the positions in keep, in the order of s
RECURSIVE KeepPositions(_, _, _)
KeepPositions(s, keep, i) ==
  IF i > Len(s) THEN <<>>
  ELSE (IF i \in keep THEN <<s[i]>> ELSE <<>>) \o KeepPositions(s, keep, i + 1)

RECURSIVE ISqrtIter(_, _)
ISqrtIter(n, r) ==
  LET r2 == (r + n \div r) \div 2
  IN  IF r2 >= r THEN r ELSE ISqrtIter(n, r2)

\* Math.sqrt on the integers of the model: the floor of the square root
ISqrt(n) == IF n = 0 THEN 0 ELSE ISqrtIter(n, n)

(***************************************************************************)
(* distanceMeters (lines 59-73).  On the model's grid all points lie       *)
(* within a few thousandths of a degree of each other, where haversine     *)
(*   x = sin^2(dLat/2) + cos(lat1) cos(lat2) sin^2(dLng/2),                *)
(*   d = 2 R atan2(sqrt x, sqrt(1-x))                                      *)
(* is, to the metre, d = R sqrt(dLat^2 + cos(lat1) cos(lat2) dLng^2).      *)
(* Angles are in units of 1e-7 rad, cosines in thousandths.                *)
(***************************************************************************)
R == 6371000
PiE4 == 31416

\* toRad rounded down instead of toward zero: not odd
ToRadFloor(d) == (d * PiE4) \div 180

\* toRad (line 61), odd like the multiplication it models
ToRad(d) == IF d < 0 THEN 0 - ((((0 - d) * PiE4)) \div 180) ELSE (d * PiE4) \div 180

\* Math.cos in thousandths: 1 - t^2/2, t in 1e-7 rad
CosPm(t) == 1000 - (((t \div 10000) * (t \div 10000)) \div 2000)

DistanceMeters(a, b) ==
  LET dLat == ToRad(b.lat - a.lat)
      dLng == ToRad(b.lng - a.lng)
      lat1 == ToRad(a.lat)
      lat2 == ToRad(b.lat)
      x4   == dLat * dLat
              + (((CosPm(lat1) * CosPm(lat2)) \div 1000) * (dLng * dLng)) \div 1000
  IN  ((R \div 1000) * ISqrt(x4)) \div 10000

(***************************************************************************)
(* buildOptimizedRoute (lines 494-524), one loop iteration per step.       *)
(* A budget is a JavaScript number: [k |-> "fin", v |-> metres] or a       *)
(* non-finite value / undefined (v unused).                                *)
(***************************************************************************)
Infinity == 2147483647

Fin(v) == [k |-> "fin", v |-> v]
NotFinite(kind) == [k |-> kind, v |-> 0]

\* the test of line 513 without "maxMeters > 0": zero and negative budgets bind
IsFiniteOnly(m) == m.k = "fin"

\* Number.isFinite(maxMeters) && maxMeters > 0 (line 513)
IsFinitePositive(m) == m.k = "fin" /\ m.v > 0

\* the for loop of lines 505-511; indices are 1-based here
RECURSIVE NearestScan(_, _, _, _, _)
NearestScan(current, remaining, i, bestIdx, bestDist) ==
  IF i > Len(remaining)
  THEN [bestIdx |-> bestIdx, bestDist |-> bestDist]
  ELSE LET d == DistanceMeters(current, remaining[i])
       IN  IF d < bestDist
           THEN NearestScan(current, remaining, i + 1, i, d)
           ELSE NearestScan(current, remaining, i + 1, bestIdx, bestDist)

\* the scan with <= in place of < : the last of several nearest candidates wins
RECURSIVE NearestScanLast(_, _, _, _, _)
NearestScanLast(current, remaining, i, bestIdx, bestDist) ==
  IF i > Len(remaining)
  THEN [bestIdx |-> bestIdx, bestDist |-> bestDist]
  ELSE LET d == DistanceMeters(current, remaining[i])
       IN  IF d <= bestDist
           THEN NearestScanLast(current, remaining, i + 1, i, d)
           ELSE NearestScanLast(current, remaining, i + 1, bestIdx, bestDist)

NearestLastWins(current, remaining) == NearestScanLast(current, remaining, 1, 1, Infinity)

\* no search: the first listed candidate is taken as the nearest
NearestFirstListed(current, remaining) ==
  [bestIdx |-> 1, bestDist |-> DistanceMeters(current, remaining[1])]

Nearest(current, remaining) == NearestScan(current, remaining, 1, 1, Infinity)

\* remaining.splice(bestIdx, 1) (line 517): the list without that element
Splice(s, i) == SubSeq(s, 1, i - 1) \o SubSeq(s, i + 1, Len(s))

\* the budget test without the leg about to be taken
OverBudgetBeforeLeg(usedMeters, bestDist, maxMeters) ==
  IsFinitePositive(maxMeters) /\ usedMeters > maxMeters.v

\* the budget test applied only after a first leg was taken
OverBudgetAfterFirst(usedMeters, bestDist, maxMeters) ==
  IsFinitePositive(maxMeters) /\ usedMeters > 0 /\ usedMeters + bestDist > maxMeters.v

\* the budget test of lines 513-515
OverBudget(usedMeters, bestDist, maxMeters) ==
  IsFinitePositive(maxMeters) /\ usedMeters + bestDist > maxMeters.v

IdleRb == [pc |-> "idle"]

\* lines 495-499
EnterRoute(origin, points, maxMeters) ==
  [pc |-> "loop", origin |-> origin, points |-> points, maxMeters |-> maxMeters,
   remaining |-> points, route |-> <<>>, current |-> origin, usedMeters |-> 0]

\* one evaluation of the while condition and, when it holds, of the body
\* (lines 501-521)
RouteStep(r) ==
  IF r.remaining = <<>>
  THEN [r EXCEPT !.pc = "returned"]
  ELSE LET best == Nearest(r.current, r.remaining)
       IN  IF OverBudget(r.usedMeters, best.bestDist, r.maxMeters)
           THEN [r EXCEPT !.pc = "returned"]
           ELSE LET next == r.remaining[best.bestIdx]
                IN  [r EXCEPT !.remaining = Splice(r.remaining, best.bestIdx),
                              !.route = Append(r.route, next),
                              !.usedMeters = r.usedMeters + best.bestDist,
                              !.current = next]

BuildOptimizedRouteStep ==
  /\ rb.pc = "loop"
  /\ rb' = RouteStep(rb)
  /\ UNCHANGED appVars

(***************************************************************************)
(* JavaScript values of the catalog and their conversions.                 *)
(*   a raw id (falla_number) is a number, a string or undefined;           *)
(*   a raw coordinate is a number, a numeric string written with a         *)
(*   decimal comma or a decimal point, or something that is not numeric.   *)
(* The strings of the model hold digits and letters only (no sign, blank,  *)
(* exponent or decimal separator in an id).                                *)
(***************************************************************************)
NaN == NotFinite("NaN")

IdNum(n) == [t |-> "num", n |-> n, s |-> <<>>]
IdStr(s) == [t |-> "str", n |-> 0, s |-> s]
IdUndefined == [t |-> "undefined", n |-> 0, s |-> <<>>]

Digits == <<"0", "1", "2", "3", "4", "5", "6", "7", "8", "9">>
IsDigit(c) == \E d \in 1..10 : Digits[d] = c
DigitValue(c) == (CHOOSE d \in 1..10 : Digits[d] = c) - 1

RECURSIVE ParseDigits(_, _)
ParseDigits(s, acc) ==
  IF s = <<>> THEN acc ELSE ParseDigits(Tail(s), 10 * acc + DigitValue(Head(s)))

\* Number(x) for a raw id (line 294): Number("02") is 2, Number("") is 0,
\* Number("x") and Number(undefined) are NaN
ToNumber(x) ==
  CASE x.t = "num" -> Fin(x.n)
    [] x.t = "str" -> IF \A i \in 1..Len(x.s) : IsDigit(x.s[i])
                      THEN Fin(ParseDigits(x.s, 0)) ELSE NaN
    [] OTHER -> NaN

RECURSIVE DecimalText(_)
DecimalText(n) ==
  IF n < 10 THEN <<Digits[n + 1]>> ELSE DecimalText(n \div 10) \o <<Digits[(n % 10) + 1]>>

\* `${x}` : the decimal digits of a number, a string as it is
ToText(x) ==
  CASE x.t = "num" -> DecimalText(x.n)
    [] x.t = "str" -> x.s
    [] OTHER -> <<"u", "n", "d", "e", "f", "i", "n", "e", "d">>

\* keyForFallaNumber (lines 21-23)
KeyForFallaNumber(num) == <<"f", "a", "l", "l", "a", "_">> \o ToText(num)

CoordNum(v) == [t |-> "num", v |-> v, sep |-> "."]
CoordStr(v, sep) == [t |-> "str", v |-> v, sep |-> sep]
CoordBad == [t |-> "bad", v |-> 0, sep |-> "."]

\* Number(String(c).replace(",", ".")) (lines 290-291): String() writes a
\* number with a point; the comma of a string is replaced before parsing
CoordToNumber(c) ==
  LET sep == IF c.t = "num" THEN "." ELSE c.sep
      replaced == IF sep = "," THEN "." ELSE sep
  IN  IF c.t # "bad" /\ replaced = "." THEN Fin(c.v) ELSE NaN

IsFinite(x) == x.k = "fin"

(***************************************************************************)
(* normalize (lines 38-44): lower case, then NFD and the removal of the    *)
(* diacritics, character by character on the model's alphabet.             *)
(***************************************************************************)
ToLowerCase(c) ==
  CASE c = "A" -> "a"
    [] c = "B" -> "b"
    [] c = "C" -> "c"
    [] c = "Á" -> "á"
    [] OTHER -> c

StripDiacritic(c) == IF c = "á" THEN "a" ELSE c

Normalize(s) == [i \in 1..Len(s) |-> StripDiacritic(ToLowerCase(s[i]))]

\* String.prototype.includes
Includes(h, q) ==
  \E i \in 0..(Len(h) - Len(q)) : SubSeq(h, i + 1, i + Len(q)) = q

(***************************************************************************)
(* Persistence (lines 19-35).  storage is the text under STORAGE_KEY:      *)
(* absent, text that is not JSON, the texts "null" and "[]", or the JSON   *)
(* of a mapping key -> record, kept here as the mapping itself             *)
(* (JSON.stringify and JSON.parse are inverse on booleans and integers).   *)
(***************************************************************************)
EmptyMap == <<>>
Stored(kind, m) == [k |-> kind, m |-> m]

DefaultRecord == [visited |-> FALSE, wish |-> FALSE, rating_major |-> 0, rating_child |-> 0]

\* loadState (lines 25-31): [k |-> "object" | "array" | "null", m |-> mapping]
LoadState(st) ==
  CASE st.k = "absent" -> [k |-> "object", m |-> EmptyMap]     \* getItem() || "{}"
    [] st.k = "corrupt" -> [k |-> "object", m |-> EmptyMap]    \* catch
    [] st.k = "null" -> [k |-> "null", m |-> EmptyMap]
    [] st.k = "array" -> [k |-> "array", m |-> EmptyMap]
    [] OTHER -> [k |-> "object", m |-> st.m]

\* the mapping written holds the saved record alone
AssignAlone(state, key, record) ==
  IF state.k = "object"
  THEN [state EXCEPT !.m = (key :> record)]
  ELSE state

\* next[key] = record (line 367) on what loadState returned: an array takes
\* the property but JSON.stringify writes the indexed elements only
Assign(state, key, record) ==
  IF state.k = "object"
  THEN [state EXCEPT !.m = (key :> record) @@ state.m]
  ELSE state

\* saveState (lines 33-35): the text written
SaveState(state) ==
  CASE state.k = "object" -> Stored("map", state.m)
    [] state.k = "array" -> Stored("array", EmptyMap)
    [] OTHER -> Stored("null", EmptyMap)

\* state[key] : reading a property of null throws
Throws(state) == state.k = "null"
Has(state, key) == state.k = "object" /\ key \in DOMAIN state.m

\* state[key] || default (line 298)
GetOrDefault(state, key) == IF Has(state, key) THEN state.m[key] ELSE DefaultRecord

\* !!state[key]?.visited and !!state[key]?.wish (lines 443-444)
VisitedOf(state, key) == Has(state, key) /\ state.m[key].visited
WishOf(state, key) == Has(state, key) /\ state.m[key].wish

(***************************************************************************)
(* clampInt and clampNum (lines 46-56) on numbers in tenths.               *)
(***************************************************************************)
\* Math.round: the nearest integer, halves upwards
Round(v) == ((v + 5) \div 10) * 10

\* the value of an input element, or of a missing element (m?.value):
\* a numeric text, the empty text, a text that is no number, undefined
ValNumeric(tenths) == [t |-> "numeric", v |-> tenths]
ValEmpty == [t |-> "empty", v |-> 0]
ValJunk == [t |-> "junk", v |-> 0]
ValUndefined == [t |-> "undefined", v |-> 0]

\* Number(n) (lines 47, 53): Number("") is 0
NumberOf(n) ==
  CASE n.t = "numeric" -> Fin(n.v)
    [] n.t = "empty" -> Fin(0)
    [] OTHER -> NaN

\* a number of the source in tenths
Tenths(units) == 10 * units

\* clampInt without Math.min: no upper bound
ClampIntNoMax(n, min, max, fallback) ==
  LET v == NumberOf(n)
  IN  IF ~IsFinite(v) THEN fallback
      ELSE Max(min, Round(v.v))

ClampInt(n, min, max, fallback) ==
  LET v == NumberOf(n)
  IN  IF ~IsFinite(v) THEN fallback
      ELSE Max(min, Min(max, Round(v.v)))

ClampNum(n, min, max, fallback) ==
  LET v == NumberOf(n)
  IN  IF ~IsFinite(v) THEN fallback
      ELSE Max(min, Min(max, v.v))

(***************************************************************************)
(* The filters and the markers (lines 266-279, 282-392, 417-456).          *)
(* A filtered list is a sequence of positions in allFallas (the objects of *)
(* the catalog array).                                                     *)
(***************************************************************************)
\* getSelectedSections (lines 266-273): "ALL", or the checked labels
GetSelectedSections(cbs) ==
  LET selected == {sec \in DOMAIN cbs : cbs[sec]}
  IN  IF DOMAIN cbs = {} THEN [all |-> TRUE, selected |-> {}]
      ELSE IF selected = DOMAIN cbs THEN [all |-> TRUE, selected |-> {}]
      ELSE [all |-> FALSE, selected |-> selected]

\* the haystack of line 434
Haystack(f) ==
  Normalize(f.name \o <<" ">> \o ToText(f.falla_number) \o <<" ">> \o f.section)

\* the callback with NOT_VISITED answering !wish
StatusTestNotWish(statusFilter_, state, f) ==
  LET key == KeyForFallaNumber(f.falla_number)
      visited == VisitedOf(state, key)
      wish == WishOf(state, key)
  IN  CASE statusFilter_ = "VISITED" -> visited
        [] statusFilter_ = "NOT_VISITED" -> ~wish
        [] statusFilter_ = "WISH" -> wish
        [] OTHER -> TRUE

\* the callback of lines 441-451
StatusTest(statusFilter_, state, f) ==
  LET key == KeyForFallaNumber(f.falla_number)
      visited == VisitedOf(state, key)
      wish == WishOf(state, key)
  IN  CASE statusFilter_ = "VISITED" -> visited
        [] statusFilter_ = "NOT_VISITED" -> ~visited
        [] statusFilter_ = "WISH" -> wish
        [] OTHER -> TRUE

RECURSIVE Positions(_, _)
Positions(i, n) == IF i > n THEN <<>> ELSE <<i>> \o Positions(i + 1, n)

\* applyFilters with the search run on allFallas instead of on filtered:
\* a search text undoes the section filter
FilterListSearchAll(fallas, text, statusFilter_, cbs, state) ==
  LET q == Normalize(text)
      selectedSections == GetSelectedSections(cbs)
      InSection(i) == fallas[i].section \in selectedSections.selected
      HasText(i) == Includes(Haystack(fallas[i]), q)
      HasStatus(i) == StatusTest(statusFilter_, state, fallas[i])
      all == Positions(1, Len(fallas))
      bySection == IF ~selectedSections.all THEN SelectSeq(all, InSection) ELSE all
      byText == IF q # <<>> THEN SelectSeq(all, HasText) ELSE bySection
  IN  IF statusFilter_ # "ALL"
      THEN IF byText # <<>> /\ Throws(state)
           THEN [fault |-> TRUE, filtered |-> <<>>]
           ELSE [fault |-> FALSE, filtered |-> SelectSeq(byText, HasStatus)]
      ELSE [fault |-> FALSE, filtered |-> byText]

\* lines 418-452 of applyFilters: the list handed to renderMarkers, or the
\* exception of line 443 when the persisted text is "null"
FilterList(fallas, text, statusFilter_, cbs, state) ==
  LET q == Normalize(text)
      selectedSections == GetSelectedSections(cbs)
      InSection(i) == fallas[i].section \in selectedSections.selected
      HasText(i) == Includes(Haystack(fallas[i]), q)
      HasStatus(i) == StatusTest(statusFilter_, state, fallas[i])
      all == Positions(1, Len(fallas))
      bySection == IF ~selectedSections.all THEN SelectSeq(all, InSection) ELSE all
      byText == IF q # <<>> THEN SelectSeq(bySection, HasText) ELSE bySection
  IN  IF statusFilter_ # "ALL"
      THEN IF byText # <<>> /\ Throws(state)
           THEN [fault |-> TRUE, filtered |-> <<>>]
           ELSE [fault |-> FALSE, filtered |-> SelectSeq(byText, HasStatus)]
      ELSE [fault |-> FALSE, filtered |-> byText]

\* one turn of the loop of renderMarkers (lines 289-388): the marker made
\* for the record at position i, with the record read at line 298
MarkerOf(fallas, state, i) ==
  LET f == fallas[i]
      fallaNum == ToNumber(f.falla_number)
      key == KeyForFallaNumber(IdNum(fallaNum.v))
  IN  [idx |-> i, lat |-> CoordToNumber(f.lat).v, lng |-> CoordToNumber(f.lng).v,
       falla_number |-> fallaNum.v, section |-> f.section, key |-> key,
       cur |-> GetOrDefault(state, key)]

\* the tests of lines 292 and 295
Drawable(f) ==
  /\ IsFinite(CoordToNumber(f.lat))
  /\ IsFinite(CoordToNumber(f.lng))
  /\ IsFinite(ToNumber(f.falla_number))

RECURSIVE MarkerList(_, _, _)
MarkerList(fallas, state, filtered) ==
  IF filtered = <<>> THEN <<>>
  ELSE (IF Drawable(fallas[Head(filtered)])
        THEN <<MarkerOf(fallas, state, Head(filtered))>> ELSE <<>>)
       \o MarkerList(fallas, state, Tail(filtered))

\* renderMarkers (lines 282-392): markers is emptied first; line 298 throws
\* at the first drawable record when the persisted text is "null"
RenderMarkers(fallas, state, filtered) ==
  IF Throws(state) /\ \E j \in 1..Len(filtered) : Drawable(fallas[filtered[j]])
  THEN [fault |-> TRUE, markers |-> <<>>]
  ELSE [fault |-> FALSE, markers |-> MarkerList(fallas, state, filtered)]

\* applyFilters (lines 417-456) on the given catalog, controls and storage:
\* what it leaves in rendered, markers and routeLine, and whether it threw
ApplyFilters(clearRouteToo, fallas, text, statusFilter_, cbs, st) ==
  LET state == LoadState(st)
      fl == FilterList(fallas, text, statusFilter_, cbs, state)
      rm == RenderMarkers(fallas, state, fl.filtered)
  IN  IF fl.fault
      THEN [fault |-> "applyFilters", rendered |-> rendered, markers |-> markers,
            routeLine |-> routeLine]
      ELSE IF rm.fault
      THEN [fault |-> "renderMarkers", rendered |-> fl.filtered, markers |-> rm.markers,
            routeLine |-> routeLine]
      ELSE [fault |-> "none", rendered |-> fl.filtered, markers |-> rm.markers,
            routeLine |-> IF clearRouteToo THEN NoValue ELSE routeLine]

(***************************************************************************)
(* The handlers.  A handler runs to completion: while buildRoute is        *)
(* active (rb.pc is not "idle": inside the loop of buildOptimizedRoute, or *)
(* blocked in the alert that reports its outcome) no other handler runs.   *)
(***************************************************************************)
Idle == rb.pc = "idle"

\* the state an exception leaves in fault
Thrown(place) == IF place = "none" THEN fault ELSE place

\* main (lines 624-648) when loadData throws: the catch of line 645
MainLoadFails ==
  /\ phase = "boot"
  /\ phase' = "loadFailed"
  /\ UNCHANGED <<allFallas, storage, secCbs, allCb, textFilter, statusFilter, rendered,
                 markers, routeLine, startMarker, userMarker, pickStartMode, watchId,
                 fault, rb>>

\* main (lines 624-644) on the catalog the server answers: loadData,
\* buildSectionFilter (lines 202-216, 230), applyFilters(), then the
\* listeners of lines 631-644, which an exception of applyFilters skips
Main(data) ==
  /\ phase = "boot"
  /\ LET cbs == [sec \in {data[i].section : i \in 1..Len(data)} |-> TRUE]
         r == ApplyFilters(TRUE, data, textFilter, statusFilter, cbs, storage)
     IN  /\ allFallas' = data
         /\ secCbs' = cbs
         /\ allCb' = TRUE
         /\ rendered' = r.rendered
         /\ markers' = r.markers
         /\ routeLine' = r.routeLine
         /\ fault' = Thrown(r.fault)
         /\ phase' = IF r.fault = "none" THEN "running" ELSE "sectionsOnly"
  /\ UNCHANGED <<storage, textFilter, statusFilter, startMarker, userMarker,
                 pickStartMode, watchId, rb>>

\* what a handler that ends in applyFilters leaves behind
Refiltered(clearRouteToo, cbs, text, statusFilter_, st) ==
  LET r == ApplyFilters(clearRouteToo, allFallas, text, statusFilter_, cbs, st)
  IN  /\ rendered' = r.rendered
      /\ markers' = r.markers
      /\ routeLine' = r.routeLine
      /\ fault' = Thrown(r.fault)

\* the change listener of #sec_all (lines 231-236)
AllCbChange ==
  /\ phase \in {"running", "sectionsOnly"}
  /\ Idle
  /\ LET checked == ~allCb
         cbs == [sec \in DOMAIN secCbs |-> checked]
     IN  /\ allCb' = checked
         /\ secCbs' = cbs
         /\ Refiltered(TRUE, cbs, textFilter, statusFilter, storage)
  /\ UNCHANGED <<allFallas, storage, textFilter, statusFilter, startMarker, userMarker,
                 pickStartMode, watchId, phase, rb>>

\* the change listener of the section list (lines 239-256)
SectionCbChange(sec) ==
  /\ phase \in {"running", "sectionsOnly"}
  /\ Idle
  /\ sec \in DOMAIN secCbs
  /\ LET toggled == [secCbs EXCEPT ![sec] = ~secCbs[sec]]
         allChecked == \A x \in DOMAIN toggled : toggled[x]
         noneChecked == \A x \in DOMAIN toggled : ~toggled[x]
         cbs == IF noneChecked THEN [x \in DOMAIN toggled |-> TRUE] ELSE toggled
     IN  /\ secCbs' = cbs
         /\ allCb' = IF noneChecked THEN TRUE ELSE allChecked
         /\ Refiltered(FALSE, cbs, textFilter, statusFilter, storage)
  /\ UNCHANGED <<allFallas, storage, textFilter, statusFilter, startMarker, userMarker,
                 pickStartMode, watchId, phase, rb>>

\* the input listener of #textFilter (line 631)
TextInput(text) ==
  /\ phase = "running"
  /\ Idle
  /\ text # textFilter
  /\ textFilter' = text
  /\ Refiltered(FALSE, secCbs, text, statusFilter, storage)
  /\ UNCHANGED <<allFallas, storage, secCbs, allCb, statusFilter, startMarker,
                 userMarker, pickStartMode, watchId, phase, rb>>

\* the change listener of #statusFilter (line 632)
StatusChange(status) ==
  /\ phase = "running"
  /\ Idle
  /\ status # statusFilter
  /\ statusFilter' = status
  /\ Refiltered(TRUE, secCbs, textFilter, status, storage)
  /\ UNCHANGED <<allFallas, storage, secCbs, allCb, textFilter, startMarker,
                 userMarker, pickStartMode, watchId, phase, rb>>

\* a save handler that does not refresh the markers
SaveNoRefresh(st) == UNCHANGED <<rendered, markers, routeLine, fault>>

\* applyFilters(false) at the end of the save handler (line 382)
SaveRefresh(st) == Refiltered(FALSE, secCbs, textFilter, statusFilter, st)

\* the record the save handler builds (lines 367-372)
SavedRecord(v, w, m, c) ==
  [visited |-> v, wish |-> w,
   rating_major |-> ClampInt(m, Tenths(0), Tenths(10), Tenths(0)),
   rating_child |-> ClampInt(c, Tenths(0), Tenths(10), Tenths(0))]

\* the click handler of the popup's save button (lines 365-383) of the
\* j-th marker, with the popup's inputs as the user left them
Save(j, v, w, m, c) ==
  /\ phase \in {"running", "sectionsOnly"}
  /\ Idle
  /\ j \in 1..Len(markers)
  /\ LET key == markers[j].key
         loaded == LoadState(storage)
         next == Assign(loaded, key, SavedRecord(v, w, m, c))
         st == SaveState(next)
     IN  IF Throws(loaded)
         THEN /\ fault' = "save"
              /\ UNCHANGED <<storage, rendered, markers, routeLine>>
         ELSE /\ storage' = st
              /\ SaveRefresh(st)
  /\ UNCHANGED <<allFallas, secCbs, allCb, textFilter, statusFilter, startMarker,
                 userMarker, pickStartMode, watchId, phase, rb>>

\* locateUser (lines 114-161): starts the watch unless one is running
LocateUser ==
  /\ phase = "running"
  /\ Idle
  /\ watchId' = IF watchId # NoValue THEN watchId ELSE [id |-> 1]
  /\ UNCHANGED <<allFallas, storage, secCbs, allCb, textFilter, statusFilter, rendered,
                 markers, routeLine, startMarker, userMarker, pickStartMode, phase,
                 fault, rb>>

\* the position callback of the watch (lines 130-147)
PositionSample(lat, lng) ==
  /\ watchId # NoValue
  /\ Idle
  /\ userMarker' = [lat |-> lat, lng |-> lng]
  /\ UNCHANGED <<allFallas, storage, secCbs, allCb, textFilter, statusFilter, rendered,
                 markers, routeLine, startMarker, pickStartMode, watchId, phase,
                 fault, rb>>

\* the error callback of the watch (lines 148-158)
PositionError ==
  /\ watchId # NoValue
  /\ Idle
  /\ watchId' = NoValue
  /\ UNCHANGED <<allFallas, storage, secCbs, allCb, textFilter, statusFilter, rendered,
                 markers, routeLine, startMarker, userMarker, pickStartMode, phase,
                 fault, rb>>

\* enablePickStartMode (lines 167-170)
EnablePickStartMode ==
  /\ phase = "running"
  /\ Idle
  /\ pickStartMode' = TRUE
  /\ UNCHANGED <<allFallas, storage, secCbs, allCb, textFilter, statusFilter, rendered,
                 markers, routeLine, startMarker, userMarker, watchId, phase, fault, rb>>

\* setStartPoint without "pickStartMode = false": every later click moves the
\* start point
MapClickKeepsPicking(lat, lng) ==
  /\ phase = "running"
  /\ Idle
  /\ IF ~pickStartMode
     THEN UNCHANGED <<startMarker, pickStartMode>>
     ELSE /\ startMarker' = [lat |-> lat, lng |-> lng]
          /\ UNCHANGED pickStartMode
  /\ UNCHANGED <<allFallas, storage, secCbs, allCb, textFilter, statusFilter, rendered,
                 markers, routeLine, userMarker, watchId, phase, fault, rb>>

\* the click listener of the map (lines 641-644) and setStartPoint (172-179)
MapClick(lat, lng) ==
  /\ phase = "running"
  /\ Idle
  /\ IF ~pickStartMode
     THEN UNCHANGED <<startMarker, pickStartMode>>
     ELSE /\ startMarker' = [lat |-> lat, lng |-> lng]
          /\ pickStartMode' = FALSE
  /\ UNCHANGED <<allFallas, storage, secCbs, allCb, textFilter, statusFilter, rendered,
                 markers, routeLine, userMarker, watchId, phase, fault, rb>>

\* clearRoute (lines 469-474) from #clearRouteBtn (line 637)
ClearRoute ==
  /\ phase = "running"
  /\ Idle
  /\ routeLine' = NoValue
  /\ UNCHANGED <<allFallas, storage, secCbs, allCb, textFilter, statusFilter, rendered,
                 markers, startMarker, userMarker, pickStartMode, watchId, phase,
                 fault, rb>>

\* getOrigin with the two tests in the other order: the live position wins
GetOriginLiveFirst ==
  IF userMarker # NoValue
  THEN [lat |-> userMarker.lat, lng |-> userMarker.lng, label |-> "GPS"]
  ELSE IF startMarker # NoValue
  THEN [lat |-> startMarker.lat, lng |-> startMarker.lng, label |-> "Manual"]
  ELSE NoValue

\* getOrigin (lines 181-191)
GetOrigin ==
  IF startMarker # NoValue
  THEN [lat |-> startMarker.lat, lng |-> startMarker.lng, label |-> "Manual"]
  ELSE IF userMarker # NoValue
  THEN [lat |-> userMarker.lat, lng |-> userMarker.lng, label |-> "GPS"]
  ELSE NoValue

\* getRouteBudgetMeters (lines 476-487) on the values of #timeMin and
\* #speedKmh: minutes * (kmh * 1000 / 60), in whole metres
GetRouteBudgetMeters(timeValue, speedValue) ==
  LET minutes == ClampNum(timeValue, Tenths(1), Tenths(600), Tenths(45))
      kmh == ClampNum(speedValue, Tenths(2), Tenths(10), 45)
  IN  Fin((minutes * kmh) \div 6)

\* the points of lines 551-554
RECURSIVE PointsOf(_)
PointsOf(ms) ==
  IF ms = <<>> THEN <<>>
  ELSE <<[lat |-> Head(ms).lat, lng |-> Head(ms).lng,
          falla_number |-> Head(ms).falla_number]>> \o PointsOf(Tail(ms))

\* the filter reading the wish flag in place of the visited flag
NotWishedPoints(points, state) ==
  LET NotWished(p) == ~WishOf(state, KeyForFallaNumber(IdNum(p.falla_number)))
  IN  SelectSeq(points, NotWished)

\* the filter of lines 556-558
NotVisitedPoints(points, state) ==
  LET NotVisited(p) == ~VisitedOf(state, KeyForFallaNumber(IdNum(p.falla_number)))
  IN  SelectSeq(points, NotVisited)

\* the alert that ends buildRoute, with what the request produced
Alert(outcome, origin, route, ignoreVisited) ==
  [pc |-> "alert", outcome |-> outcome, origin |-> origin, route |-> route,
   ignoreVisited |-> ignoreVisited]

\* buildRoute (lines 539-565) from #routeBtn (line 636), up to the call of
\* buildOptimizedRoute or to the alert of an early return
BuildRoute(timeValue, speedValue, ignoreVisited) ==
  /\ phase = "running"
  /\ Idle
  /\ LET origin == GetOrigin
         maxMeters == GetRouteBudgetMeters(timeValue, speedValue)
         state == LoadState(storage)
         visible == PointsOf(markers)
         points == IF ignoreVisited THEN NotVisitedPoints(visible, state) ELSE visible
     IN  IF origin = NoValue
         THEN /\ rb' = Alert("noOrigin", NoValue, <<>>, ignoreVisited)
              /\ UNCHANGED fault
         ELSE IF ignoreVisited /\ visible # <<>> /\ Throws(state)
         THEN /\ fault' = "buildRoute"
              /\ UNCHANGED rb
         ELSE IF points = <<>>
         THEN /\ rb' = Alert("noPoints", origin, <<>>, ignoreVisited)
              /\ UNCHANGED fault
         ELSE /\ rb' = EnterRoute(origin, points, maxMeters)
                         @@ [ignoreVisited |-> ignoreVisited]
              /\ UNCHANGED fault
  /\ UNCHANGED <<allFallas, storage, secCbs, allCb, textFilter, statusFilter, rendered,
                 markers, routeLine, startMarker, userMarker, pickStartMode, watchId,
                 phase>>

\* drawRoute (lines 526-537): the polyline through the origin and the stops
DrawRoute(origin, route) ==
  <<[lat |-> origin.lat, lng |-> origin.lng]>>
    \o [k \in 1..Len(route) |-> [lat |-> route[k].lat, lng |-> route[k].lng]]

\* buildRoute after buildOptimizedRoute has returned (lines 565-584)
BuildRouteFinish ==
  /\ phase = "running"
  /\ rb.pc = "returned"
  /\ IF rb.route = <<>>
     THEN /\ rb' = Alert("nothingFits", rb.origin, <<>>, rb.ignoreVisited)
          /\ UNCHANGED routeLine
     ELSE /\ rb' = Alert("created", rb.origin, rb.route, rb.ignoreVisited)
          /\ routeLine' = DrawRoute(rb.origin, rb.route)
  /\ UNCHANGED <<allFallas, storage, secCbs, allCb, textFilter, statusFilter, rendered,
                 markers, startMarker, userMarker, pickStartMode, watchId, phase, fault>>

\* the user closes the alert and buildRoute returns
DismissAlert ==
  /\ rb.pc = "alert"
  /\ rb' = IdleRb
  /\ UNCHANGED appVars

(***************************************************************************)
(* The application: the inputs of the model.                               *)
(***************************************************************************)
Falla(id, name, section, lat, lng) ==
  [falla_number |-> id, name |-> name, section |-> section, lat |-> lat, lng |-> lng]

\* the records a catalog of the model is made of, in the order of the file
MasterCatalog ==
  << Falla(IdNum(1), <<"Á", "b">>, <<"A">>, CoordNum(1), CoordNum(0)),
     Falla(IdStr(<<"0", "2">>), <<"C">>, <<"B">>, CoordStr(3, ","), CoordStr(0, ".")),
     Falla(IdNum(3), <<"a">>, <<"A">>, CoordBad, CoordNum(0)),
     Falla(IdStr(<<"x">>), <<"b">>, <<"B">>, CoordNum(2), CoordNum(0)) >>

\* every catalog made of records of the master catalog, in its order
Catalogs ==
  {KeepPositions(MasterCatalog, keep, 1) : keep \in SUBSET (1..Len(MasterCatalog))}

ForeignRecord == [visited |-> TRUE, wish |-> FALSE, rating_major |-> 70, rating_child |-> 30]

\* what the browser may hold under STORAGE_KEY when the page loads
InitialStorage ==
  {Stored("absent", EmptyMap), Stored("corrupt", EmptyMap), Stored("null", EmptyMap),
   Stored("array", EmptyMap),
   Stored("map", KeyForFallaNumber(IdNum(9)) :> ForeignRecord)}

\* the catalogs of the specification of the whole application
AppCatalogs == {<<>>, MasterCatalog, KeepPositions(MasterCatalog, {3, 4}, 1)}

\* the catalogs of the specification of the store
StoreCatalogs == {KeepPositions(MasterCatalog, {1, 3}, 1), KeepPositions(MasterCatalog, {2}, 1)}

TextInputs == {<<>>, <<"Á">>, <<"2">>}
StatusValues == {"ALL", "VISITED", "NOT_VISITED", "WISH"}
ClickLats == {2}
GpsLats == {3}
TimeValues == {ValUndefined, ValNumeric(10)}
SpeedValues == {ValUndefined}
RatingValues ==
  {ValUndefined, ValEmpty, ValJunk, ValNumeric(0 - 30), ValNumeric(150), ValNumeric(75),
   ValNumeric(70), ValNumeric(30)}

\* the page before main runs, with one of the given texts in localStorage
InitApp(stores) ==
  /\ allFallas = <<>>
  /\ storage \in stores
  /\ secCbs = <<>>
  /\ allCb = TRUE
  /\ textFilter = <<>>
  /\ statusFilter = "ALL"
  /\ rendered = <<>>
  /\ markers = <<>>
  /\ routeLine = NoValue
  /\ startMarker = NoValue
  /\ userMarker = NoValue
  /\ pickStartMode = FALSE
  /\ watchId = NoValue
  /\ phase = "boot"
  /\ fault = "none"
  /\ rb = IdleRb

(***************************************************************************)
(* The whole application.                                                  *)
(***************************************************************************)
Init == InitApp({Stored("absent", EmptyMap), Stored("null", EmptyMap), Stored("array", EmptyMap)})

Next ==
  \/ MainLoadFails
  \/ \E data \in AppCatalogs : Main(data)
  \/ AllCbChange
  \/ \E sec \in DOMAIN secCbs : SectionCbChange(sec)
  \/ \E text \in {<<>>, <<"2">>} : TextInput(text)
  \/ \E status \in {"ALL", "VISITED", "NOT_VISITED"} : StatusChange(status)
  \/ \E j \in 1..Len(markers), v \in BOOLEAN : Save(j, v, FALSE, ValEmpty, ValEmpty)
  \/ LocateUser
  \/ \E lat \in GpsLats : PositionSample(lat, 0)
  \/ PositionError
  \/ EnablePickStartMode
  \/ \E lat \in ClickLats : MapClick(lat, 0)
  \/ ClearRoute
  \/ \E t \in TimeValues, sp \in SpeedValues, ig \in BOOLEAN : BuildRoute(t, sp, ig)
  \/ BuildOptimizedRouteStep
  \/ BuildRouteFinish
  \/ DismissAlert

Spec == Init /\ [][Next]_vars

(***************************************************************************)
(* The filters and the store: every catalog, every text, status and visit  *)
(* flag of the model; no origin and no route.                              *)
(***************************************************************************)
InitFilter == InitApp(InitialStorage)

NextFilter ==
  \/ MainLoadFails
  \/ \E data \in Catalogs : Main(data)
  \/ AllCbChange
  \/ \E sec \in DOMAIN secCbs : SectionCbChange(sec)
  \/ \E text \in TextInputs : TextInput(text)
  \/ \E status \in StatusValues : StatusChange(status)
  \/ \E j \in 1..Len(markers), v \in BOOLEAN, w \in BOOLEAN :
       Save(j, v, w, ValEmpty, ValEmpty)

SpecFilter == InitFilter /\ [][NextFilter]_vars

(***************************************************************************)
(* The store: every input of the popup, on catalogs of one drawable record *)
(***************************************************************************)
NextStore ==
  \/ \E data \in StoreCatalogs : Main(data)
  \/ \E j \in 1..Len(markers), v \in BOOLEAN, w \in BOOLEAN,
        m \in RatingValues, c \in RatingValues : Save(j, v, w, m, c)

SpecStore == InitFilter /\ [][NextStore]_vars

(***************************************************************************)
(* The origin: several live positions and several clicked points, on one   *)
(* catalog, with the route requests that consume the origin.               *)
(***************************************************************************)
OriginGpsLats == {1, 3}
OriginClickLats == {0, 2}

InitOrigin == InitApp({Stored("absent", EmptyMap)})

NextOrigin ==
  \/ Main(MasterCatalog)
  \/ LocateUser
  \/ \E lat \in OriginGpsLats : PositionSample(lat, 0)
  \/ PositionError
  \/ EnablePickStartMode
  \/ \E lat \in OriginClickLats : MapClick(lat, 0)
  \/ BuildRoute(ValNumeric(10), ValUndefined, FALSE)
  \/ BuildOptimizedRouteStep
  \/ BuildRouteFinish
  \/ DismissAlert

SpecOrigin == InitOrigin /\ [][NextOrigin]_vars

(***************************************************************************)
(* The route builder alone: every origin, candidate list and budget of the *)
(* bounded sets below.                                                     *)
(***************************************************************************)
RouteCoords == {[lat |-> la, lng |-> 0] : la \in 0..MaxLat} \cup {[lat |-> 1, lng |-> 1]}

RouteBudgets ==
  {Fin(50), Fin(110), Fin(250), Fin(0), Fin(0 - 5),
   NotFinite("NaN"), NotFinite("Infinity"), NotFinite("undefined")}

\* candidate lists: the i-th candidate carries falla_number i
PointLists ==
  UNION {{[i \in 1..n |-> [lat |-> cs[i].lat, lng |-> cs[i].lng, falla_number |-> i]]
            : cs \in [1..n -> RouteCoords]} : n \in 0..MaxPoints}

InitRoute ==
  /\ allFallas = <<>>
  /\ storage = [k |-> "absent"]
  /\ secCbs = <<>>
  /\ allCb = TRUE
  /\ textFilter = <<>>
  /\ statusFilter = "ALL"
  /\ rendered = <<>>
  /\ markers = <<>>
  /\ routeLine = NoValue
  /\ startMarker = NoValue
  /\ userMarker = NoValue
  /\ pickStartMode = FALSE
  /\ watchId = NoValue
  /\ phase = "boot"
  /\ fault = "none"
  /\ \E o \in RouteCoords, ps \in PointLists, m \in RouteBudgets :
       rb = EnterRoute(o, ps, m)

NextRoute == BuildOptimizedRouteStep

SpecRoute == InitRoute /\ [][NextRoute]_vars

(***************************************************************************)
(* Properties of the route builder.                                        *)
(***************************************************************************)
InRoute == rb.pc \in {"loop", "returned"}

\* the length of the path origin -> route[1] -> ... -> route[last]
RECURSIVE PathLength(_, _)
PathLength(from, route) ==
  IF route = <<>> THEN 0
  ELSE DistanceMeters(from, Head(route)) + PathLength(Head(route), Tail(route))

\* C1: at every point of the loop of buildOptimizedRoute and at its return,
\* usedMeters is the length of the path origin -> route[0] -> ... -> route[last],
\* and under a finite positive maxMeters it never exceeds maxMeters.
C1_UsedWithinBudget ==
  InRoute =>
    /\ rb.usedMeters = PathLength(rb.origin, rb.route)
    /\ IsFinitePositive(rb.maxMeters) => rb.usedMeters <= rb.maxMeters.v

\* the loop stopped for the budget after taking at least one leg of positive length
C1_Witness ==
  /\ rb.pc = "returned"
  /\ IsFinitePositive(rb.maxMeters)
  /\ rb.remaining # <<>>
  /\ rb.route # <<>>
  /\ rb.usedMeters > 0

\* the positions in points of the candidates not among the first k-1 stops
NotPlaced(k) ==
  {i \in 1..Len(rb.points) :
     \A j \in 1..(k - 1) : rb.route[j].falla_number # rb.points[i].falla_number}

PrevPosition(k) == IF k = 1 THEN rb.origin ELSE rb.route[k - 1]

\* the position in points of the k-th stop (candidates carry distinct ids here)
PositionOf(k) == CHOOSE i \in 1..Len(rb.points) : rb.points[i] = rb.route[k]

\* C2: every stop is a candidate of minimum distance from the previous
\* position among those not yet placed, the earliest in input order among the
\* candidates at that minimum; the remaining list keeps the input order.
C2_NearestEarliestFirst ==
  InRoute =>
    /\ \A k \in 1..Len(rb.route) :
         /\ rb.route[k] \in {rb.points[i] : i \in NotPlaced(k)}
         /\ \A i \in NotPlaced(k) :
              LET dk == DistanceMeters(PrevPosition(k), rb.route[k])
                  di == DistanceMeters(PrevPosition(k), rb.points[i])
              IN  /\ dk <= di
                  /\ dk = di => PositionOf(k) <= i
    /\ rb.remaining = KeepPositions(rb.points, NotPlaced(Len(rb.route) + 1), 1)

\* a second stop was chosen among two candidates at the same distance
C2_Witness ==
  /\ rb.pc = "returned"
  /\ Len(rb.route) >= 2
  /\ \E i \in NotPlaced(2) :
       /\ i # PositionOf(2)
       /\ DistanceMeters(rb.route[1], rb.points[i])
            = DistanceMeters(rb.route[1], rb.route[2])
       /\ rb.points[i].lat # rb.route[2].lat

(***************************************************************************)
(* Properties of the filters, the store and the route requests.            *)
(***************************************************************************)
Started == phase \in {"running", "sectionsOnly"}

\* C3: the section selection that applyFilters uses is never empty: it is
\* "ALL" or holds at least one section.
C3_SelectionNeverEmpty ==
  LET selectedSections == GetSelectedSections(secCbs)
  IN  selectedSections.all \/ selectedSections.selected # {}

\* C4: whatever text localStorage holds, loadState returns a mapping and no
\* handler that consumes it throws.
C4_StoreNeverFaults ==
  /\ LoadState(storage).k = "object"
  /\ fault = "none"

\* the three predicates of the filter, each passing everything at its
\* unconstrained value
SectionPasses(i) ==
  \/ \A sec \in DOMAIN secCbs : secCbs[sec]
  \/ allFallas[i].section \in {sec \in DOMAIN secCbs : secCbs[sec]}

TextPasses(i) ==
  \/ textFilter = <<>>
  \/ Includes(Haystack(allFallas[i]), Normalize(textFilter))

StatusPasses(i) ==
  LET key == KeyForFallaNumber(allFallas[i].falla_number)
      state == LoadState(storage)
  IN  \/ statusFilter = "ALL"
      \/ statusFilter = "VISITED" /\ VisitedOf(state, key)
      \/ statusFilter = "NOT_VISITED" /\ ~VisitedOf(state, key)
      \/ statusFilter = "WISH" /\ WishOf(state, key)

PassesAll(i) == SectionPasses(i) /\ TextPasses(i) /\ StatusPasses(i)

\* the catalog positions that pass the three predicates, in catalog order
PassingPositions == SelectSeq(Positions(1, Len(allFallas)), PassesAll)

\* applyFilters would throw in this state (line 443 on a persisted "null")
FilterThrows ==
  FilterList(allFallas, textFilter, statusFilter, secCbs, LoadState(storage)).fault

\* the candidates of a route request in this state: the drawable records
\* that pass the filters, without the visited ones when they are ignored
ExpectedCandidates(ignoreVisited) ==
  LET state == LoadState(storage)
      Candidate(i) ==
        /\ Drawable(allFallas[i])
        /\ ignoreVisited =>
             ~VisitedOf(state,
                        KeyForFallaNumber(IdNum(ToNumber(allFallas[i].falla_number).v)))
      chosen == SelectSeq(PassingPositions, Candidate)
  IN  [k \in 1..Len(chosen) |->
         [lat |-> CoordToNumber(allFallas[chosen[k]].lat).v,
          lng |-> CoordToNumber(allFallas[chosen[k]].lng).v,
          falla_number |-> ToNumber(allFallas[chosen[k]].falla_number).v]]

\* C5: the candidates buildRoute hands to buildOptimizedRoute are the
\* records that pass the current filters under the persisted visit state,
\* without the visited ones when "ignore visited" is checked.
C5_CandidatesNotStale ==
  InRoute => rb.points = ExpectedCandidates(rb.ignoreVisited)

\* a route request after a save and a filter change: a visited marker is
\* shown and left out of the candidates
C5_Witness ==
  /\ InRoute
  /\ rb.ignoreVisited
  /\ Len(rb.points) = 1
  /\ Len(markers) = 2
  /\ statusFilter = "ALL"
  /\ \E j \in 1..2 : markers[j].cur.visited

\* C6: when a route request ends, the displayed route is the output of that
\* request: its route when one was created, none otherwise.
C6_LastRequestDisplayed ==
  rb.pc = "alert" =>
    routeLine = IF rb.outcome = "created" THEN DrawRoute(rb.origin, rb.route)
                ELSE NoValue

\* the positions applyFilters keeps under a status, as a set
FilteredUnder(status) ==
  LET r == FilterList(allFallas, textFilter, status, secCbs, LoadState(storage))
  IN  {r.filtered[k] : k \in 1..Len(r.filtered)}

ThrowsUnder(status) ==
  FilterList(allFallas, textFilter, status, secCbs, LoadState(storage)).fault

\* C7: with the sections and the text fixed, the results of applyFilters
\* under VISITED and under NOT_VISITED are disjoint and their union is the
\* result under ALL (whenever applyFilters returns under both).
C7_VisitedPartition ==
  (~ThrowsUnder("VISITED") /\ ~ThrowsUnder("NOT_VISITED")) =>
    /\ FilteredUnder("VISITED") \cap FilteredUnder("NOT_VISITED") = {}
    /\ FilteredUnder("VISITED") \cup FilteredUnder("NOT_VISITED") = FilteredUnder("ALL")

\* a section is unchecked and both halves of the partition are inhabited
C7_Witness ==
  /\ Started
  /\ ~GetSelectedSections(secCbs).all
  /\ ~ThrowsUnder("VISITED")
  /\ FilteredUnder("VISITED") # {}
  /\ FilteredUnder("NOT_VISITED") # {}

IsRating(r) == r \in {Tenths(n) : n \in 0..10}

\* C8: every rating in the persisted mapping is an integer of [0,10]; an
\* input above 10 is saved as 10, one below 0 as 0, a non-numeric one as 0.
C8_RatingsClamped ==
  /\ storage.k = "map" =>
       \A key \in DOMAIN storage.m :
         IsRating(storage.m[key].rating_major) /\ IsRating(storage.m[key].rating_child)
  /\ \A m \in RatingValues :
       LET n == NumberOf(m)
           saved == SavedRecord(FALSE, FALSE, m, m)
       IN  /\ IsFinite(n) /\ n.v > Tenths(10) => saved.rating_major = Tenths(10)
           /\ IsFinite(n) /\ n.v < Tenths(0) => saved.rating_child = Tenths(0)
           /\ ~IsFinite(n) => saved.rating_major = Tenths(0)

\* the inputs 15 and 7.5 were saved as 10 and 8
C8_Witness ==
  /\ storage.k = "map"
  /\ \E j \in 1..Len(markers) :
       /\ markers[j].key \in DOMAIN storage.m
       /\ storage.m[markers[j].key].rating_major = Tenths(10)
       /\ storage.m[markers[j].key].rating_child = Tenths(8)

ValidRatingValues == {ValNumeric(0), ValNumeric(30), ValNumeric(70), ValNumeric(100)}

\* C9: the save handler of a shown marker followed by the read of line 298
\* returns the record saved, for every valid record; a marker whose key was
\* never saved shows the default record.
C9_SaveThenRead ==
  \A j \in 1..Len(markers) :
    /\ \A v \in BOOLEAN, w \in BOOLEAN, m \in ValidRatingValues, c \in ValidRatingValues :
         LET key == markers[j].key
             st == SaveState(Assign(LoadState(storage), key, SavedRecord(v, w, m, c)))
         IN  GetOrDefault(LoadState(st), key)
               = [visited |-> v, wish |-> w, rating_major |-> m.v, rating_child |-> c.v]
    /\ (storage.k # "map" \/ markers[j].key \notin DOMAIN storage.m)
         => markers[j].cur = DefaultRecord

\* C10: the sequence applyFilters hands to renderMarkers is the subsequence
\* of the catalog, in catalog order, of the records that pass the section,
\* the text and the status predicate at once.
C10_FilteredIsConjunction ==
  (Started /\ ~FilterThrows) => rendered = PassingPositions

\* the three predicates are constrained at once and each removes a record
C10_Witness ==
  /\ Started
  /\ Len(allFallas) = 4
  /\ ~GetSelectedSections(secCbs).all
  /\ textFilter # <<>>
  /\ statusFilter = "NOT_VISITED"
  /\ Len(rendered) = 1
  /\ \E i \in 1..4 : SectionPasses(i) /\ TextPasses(i) /\ ~StatusPasses(i)
  /\ \E i \in 1..4 : ~SectionPasses(i)
  /\ \E i \in 1..4 : ~TextPasses(i)

(***************************************************************************)
(* More properties of the route builder.                                   *)
(***************************************************************************)
\* maxMeters is zero, negative, NaN, infinite or undefined
Unconstrained(m) == m.k # "fin" \/ m.v <= 0

\* every candidate appears in the route exactly once (candidates are distinct)
IsPermutation(route, points) ==
  /\ Len(route) = Len(points)
  /\ \A i \in 1..Len(points) :
       Cardinality({k \in 1..Len(route) : route[k] = points[i]}) = 1

\* C11: when maxMeters is not a finite positive number, every iteration of
\* the loop of buildOptimizedRoute either shortens remaining (so the loop
\* terminates) or returns, and it returns only with remaining empty and a
\* route that is a permutation of the candidates.
C11_UnconstrainedTakesAll ==
  [][(rb.pc = "loop" /\ Unconstrained(rb.maxMeters)) =>
       \/ /\ rb'.pc = "loop"
          /\ Len(rb'.remaining) < Len(rb.remaining)
       \/ /\ rb'.pc = "returned"
          /\ rb'.remaining = <<>>
          /\ IsPermutation(rb'.route, rb'.points)]_vars

\* a walk over several candidates returned under a budget of zero
C11_Witness ==
  /\ rb.pc = "returned"
  /\ rb.maxMeters = Fin(0)
  /\ Len(rb.points) >= 2
  /\ rb.remaining = <<>>
  /\ rb.usedMeters > 0

\* the nearest candidate of the origin is farther than the budget
FirstLegTooLong ==
  /\ rb.maxMeters.k = "fin"
  /\ rb.maxMeters.v > 0
  /\ rb.points # <<>>
  /\ \A i \in 1..Len(rb.points) :
       DistanceMeters(rb.origin, rb.points[i]) > rb.maxMeters.v

\* C12: buildOptimizedRoute returns route = [] and usedMeters = 0 when the
\* candidate list is empty, and when the budget is finite positive and the
\* nearest candidate of the origin is farther than the budget.
C12_NothingFits ==
  (InRoute /\ (rb.points = <<>> \/ FirstLegTooLong)) =>
    /\ rb.route = <<>>
    /\ rb.usedMeters = 0

\* returned with nothing, candidates left over
C12_Witness ==
  /\ rb.pc = "returned"
  /\ FirstLegTooLong
  /\ Len(rb.remaining) >= 2
  /\ rb.route = <<>>

(***************************************************************************)
(* Properties of the origin.                                               *)
(***************************************************************************)
\* the origin a route request would get in this state, stated from the two
\* markers
OriginIsFixedElseLive ==
  /\ startMarker # NoValue =>
       GetOrigin = [lat |-> startMarker.lat, lng |-> startMarker.lng, label |-> "Manual"]
  /\ (startMarker = NoValue /\ userMarker # NoValue) =>
       GetOrigin = [lat |-> userMarker.lat, lng |-> userMarker.lng, label |-> "GPS"]
  /\ (startMarker = NoValue /\ userMarker = NoValue) => GetOrigin = NoValue

\* C13: getOrigin returns the fixed point whenever one has been set, the
\* live position only when none has been set and null only when neither
\* exists; a fixed point is never unset, no position sample changes the
\* origin while a fixed point is set, and a running route request uses the
\* origin of that moment.
C13_FixedOriginWins ==
  /\ [](OriginIsFixedElseLive /\ (InRoute => rb.origin = GetOrigin))
  /\ [][/\ startMarker # NoValue => startMarker' # NoValue
        /\ (startMarker # NoValue /\ userMarker' # userMarker) => GetOrigin' = GetOrigin]_vars

\* a route request runs from the fixed point while a live position, taken
\* elsewhere, is known
C13_Witness ==
  /\ InRoute
  /\ startMarker # NoValue
  /\ userMarker # NoValue
  /\ userMarker.lat # startMarker.lat
  /\ rb.origin.label = "Manual"
  /\ rb.origin.lat = startMarker.lat

(***************************************************************************)
(* Properties of the catalog and of the distance.                          *)
(***************************************************************************)
\* a raw id that is present and numeric
NumericId(x) ==
  \/ x.t = "num"
  \/ x.t = "str" /\ x.s # <<>> /\ \A i \in 1..Len(x.s) : IsDigit(x.s[i])

\* a raw record with finite coordinates and a numeric id
WellFormed(f) ==
  /\ IsFinite(CoordToNumber(f.lat))
  /\ IsFinite(CoordToNumber(f.lng))
  /\ NumericId(f.falla_number)

\* C14: a raw record with non-finite coordinates or with a missing or
\* non-numeric id never enters the in-memory catalog, and so is in no filter
\* result, in no marker and among no candidates of a route.
C14_MalformedExcludedAtLoad ==
  /\ \A i \in 1..Len(allFallas) : WellFormed(allFallas[i])
  /\ \A k \in 1..Len(rendered) : WellFormed(allFallas[rendered[k]])
  /\ \A j \in 1..Len(markers) : WellFormed(allFallas[markers[j].idx])

Abs(n) == IF n < 0 THEN 0 - n ELSE n

\* the origin and the candidates of the request
RoutePlaces == {rb.origin} \cup {rb.points[i] : i \in 1..Len(rb.points)}

RecordsOf(st) == IF st.k = "map" THEN st.m ELSE EmptyMap

\* C16: a step of the application changes the persisted record of at most
\* one id, the one saved, leaves every other record as it was, and removes
\* no record: not a save, not a filter change, not a route build.
C16_SaveReplacesOneRecord ==
  [][LET before == RecordsOf(storage)
         after == RecordsOf(storage')
         written == {key \in DOMAIN after :
                       key \notin DOMAIN before \/ after[key] # before[key]}
     IN  /\ DOMAIN before \subseteq DOMAIN after
         /\ Cardinality(written) <= 1
         /\ written \subseteq {markers[j].key : j \in 1..Len(markers)}]_vars

\* two ids were saved with different records, a status filter is set and a
\* route is displayed
C16_Witness ==
  /\ storage.k = "map"
  /\ \E k1 \in DOMAIN storage.m, k2 \in DOMAIN storage.m :
       storage.m[k1].visited /\ ~storage.m[k2].visited
  /\ statusFilter # "ALL"
  /\ routeLine # NoValue
\* C17: pick mode is entered only by enablePickStartMode; a map click in
\* pick mode records the clicked point as the fixed origin and leaves pick
\* mode; the fixed origin changes in no other step, so a click outside pick
\* mode leaves the fixed origin and the pick mode as they were.
C17_PickModeProtocol ==
  [][/\ (~pickStartMode /\ pickStartMode') => EnablePickStartMode
     /\ \A lat \in OriginClickLats :
          MapClick(lat, 0) =>
            IF pickStartMode
            THEN startMarker' = [lat |-> lat, lng |-> 0] /\ ~pickStartMode'
            ELSE startMarker' = startMarker /\ ~pickStartMode'
     /\ startMarker' # startMarker => (pickStartMode /\ ~pickStartMode')]_vars

\* a click in pick mode fixed the origin, pick mode was left, and a route
\* request runs from the clicked point
C17_Witness ==
  /\ startMarker # NoValue
  /\ startMarker.lat = 2
  /\ ~pickStartMode
  /\ InRoute
  /\ rb.origin.lat = 2

(***************************************************************************)
(* Properties of the route requests of the application.                    *)
(***************************************************************************)
\* the persisted visited flag of the entity shown with the given number,
\* read at the key its popup saves under
PersistedVisited(num) ==
  \E j \in 1..Len(markers) :
    /\ markers[j].falla_number = num
    /\ storage.k = "map"
    /\ markers[j].key \in DOMAIN storage.m
    /\ storage.m[markers[j].key].visited

\* C18: in a route request made with "ignore visited" checked no stop is an
\* entity whose persisted visited flag is true; in one made with it
\* unchecked every shown entity, visited or not, is a candidate.
C18_IgnoreVisited ==
  /\ (rb.pc # "idle" /\ rb.ignoreVisited) =>
       \A k \in 1..Len(rb.route) : ~PersistedVisited(rb.route[k].falla_number)
  /\ (InRoute /\ ~rb.ignoreVisited) =>
       /\ Len(rb.points) = Len(markers)
       /\ \A j \in 1..Len(markers) : rb.points[j].falla_number = markers[j].falla_number

\* a route was created past a visited entity that is shown on the map
C18_Witness ==
  /\ rb.pc = "alert"
  /\ rb.outcome = "created"
  /\ rb.ignoreVisited
  /\ Len(rb.route) = 1
  /\ \E j \in 1..Len(markers) : PersistedVisited(markers[j].falla_number)

\* the positions applyFilters keeps under a status with every section
\* checked and no search text
UnconstrainedUnder(status) ==
  LET r == FilterList(allFallas, <<>>, status, [sec \in DOMAIN secCbs |-> TRUE],
                      LoadState(storage))
  IN  {r.filtered[k] : k \in 1..Len(r.filtered)}

\* C19: for every entity shown on the map, applyFilters with sections and
\* text unconstrained keeps it under VISITED exactly when the record saved
\* through its popup has visited true, and under NOT_VISITED exactly when
\* it has visited false.
C19_FilterReadsSavedRecord ==
  ~Throws(LoadState(storage)) =>
    \A j \in 1..Len(markers) :
      LET saved == GetOrDefault(LoadState(storage), markers[j].key)
      IN  /\ markers[j].idx \in UnconstrainedUnder("VISITED") <=> saved.visited
          /\ markers[j].idx \in UnconstrainedUnder("NOT_VISITED") <=> ~saved.visited

\* the loop stopped for the budget
StoppedForBudget ==
  /\ rb.pc = "returned"
  /\ rb.remaining # <<>>

\* C20: when buildOptimizedRoute stops because of a finite positive budget,
\* no candidate left in remaining could be appended from the current
\* position without the cumulative distance exceeding maxMeters.
C20_GreedyMaximal ==
  StoppedForBudget =>
    /\ rb.maxMeters.k = "fin"
    /\ rb.maxMeters.v > 0
    /\ \A i \in 1..Len(rb.remaining) :
         rb.usedMeters + DistanceMeters(rb.current, rb.remaining[i]) > rb.maxMeters.v

\* the loop stopped after a leg, with a nearer and a farther candidate left
C20_Witness ==
  /\ StoppedForBudget
  /\ rb.route # <<>>
  /\ Len(rb.remaining) >= 2
  /\ DistanceMeters(rb.current, rb.remaining[1]) > DistanceMeters(rb.current, rb.remaining[2])

\* C21: while a route is displayed every stop of it (the points of the
\* polyline after the origin) is the place of a marker that is shown now.
C21_RouteThroughVisible ==
  routeLine # NoValue =>
    \A k \in 2..Len(routeLine) :
      \E j \in 1..Len(markers) :
        /\ markers[j].lat = routeLine[k].lat
        /\ markers[j].lng = routeLine[k].lng

====
